---- MODULE Spec2Model ----
(***************************************************************************)
(* SafeNetID v2 (server.js): an express application with a session-based   *)
(* role gate in front of a sqlite store of admins, users and reports.      *)
(*                                                                         *)
(* One request is handled in several steps of the event loop: the          *)
(* synchronous part of the middleware chain and of the handler (Dispatch), *)
(* then one step per awaited operation (a bcrypt computation, a sqlite     *)
(* statement with its callback).  Steps of different requests interleave.  *)
(***************************************************************************)
EXTENDS Integers, FiniteSets, Sequences, TLC

\* ---------------------------------------------------------------- bounds
MaxUsers   == 2      \* user rows the model lets the users table hold
MaxReports == 2      \* report rows ever inserted (AUTOINCREMENT values used)
MaxSalt    == 1      \* distinct salts bcrypt may draw

\* ------------------------------------------------- values of the program
Undef   == "<undefined>"      \* a field missing from the request body
NumPw   == "<number>"         \* a JSON number where a string is expected
Pending == "Pending"
Resolved == "Resolved"

Clients == {1, 2}     \* browsers, each with its own session cookie
Slots   == {1, 2}     \* requests that can be in flight at the same time
Salts   == 1..MaxSalt

Names      == {Undef, "Ann"}
Emails     == {"a@x", "b@x"}
Passwords  == {Undef, "pw1", "pw2"}
RegPasswords == {Undef, NumPw, "pw1"}
Usernames  == {"admin"}
AdminPasswords == {Undef, "admin123", "pw1"}
Sites      == {Undef, "http://example.com"}
Notes      == {Undef}
Statuses   == {Undef, Resolved}
ReportIds  == 1..MaxReports

\* JavaScript truthiness of a body field: undefined (and '') is falsy
Truthy(v) == v # Undef

\* ------------------------------------------------------------- bcrypt
IsString(v) == v \notin {Undef, NumPw}
NoHash == [salt |-> -1, digest |-> <<-1, Undef>>]
Digest(salt, data) == <<salt, data>>
\* bcrypt.hash(data, 10) with the salt it drew
bcrypt_hash(data, salt) == [salt |-> salt, digest |-> Digest(salt, data)]
\* bcrypt.compare(data, hash): re-hash data under the stored salt
bcrypt_compare(data, hash) == Digest(hash.salt, data) = hash.digest

\* ------------------------------------------------------------ sessions
NoUser == [id |-> 0, name |-> Undef, email |-> Undef, username |-> Undef]
\* req.session of a request that carries no (valid) session cookie
NoSession == [user |-> NoUser, role |-> Undef]
UserIdentity(row) ==
  [id |-> row.id, name |-> row.name, email |-> row.email, username |-> Undef]
AdminIdentity(row) ==
  [id |-> row.id, name |-> Undef, email |-> Undef, username |-> row.username]

\* helpers: TRUE when the gate calls next()
requireUser(session) == session.user # NoUser /\ session.role = "user"
\* requireAdmin without the role comparison
requireAdmin_AnyLogin(session) == session.user # NoUser
requireAdmin(session) == session.user # NoUser /\ session.role = "admin"

\* ----------------------------------------------------- requests, responses
NoBody == [name |-> Undef, email |-> Undef, password |-> Undef,
           username |-> Undef, site |-> Undef, note |-> Undef,
           status |-> Undef, id |-> 0]
NoRes  == [status |-> 0, type |-> "none", success |-> Undef, id |-> 0,
           error |-> Undef, message |-> Undef, rows |-> {},
           location |-> Undef]
NoRow  == [id |-> 0, name |-> Undef, email |-> Undef, username |-> Undef,
           password |-> NoHash]
Idle   == [pc |-> "idle", client |-> 0, route |-> "none", body |-> NoBody,
           session |-> NoSession, hash |-> NoHash, row |-> NoRow,
           res |-> NoRes]

Json(success, message) ==
  [NoRes EXCEPT !.status = 200, !.type = "json", !.success = success,
                !.message = message]
JsonError(status, error) ==
  [NoRes EXCEPT !.status = status, !.type = "json", !.error = error]
JsonId(id) ==
  [NoRes EXCEPT !.status = 200, !.type = "json", !.success = "true", !.id = id]
JsonRows(rows) ==
  [NoRes EXCEPT !.status = 200, !.type = "json", !.rows = rows]
Redirect(location) ==
  [NoRes EXCEPT !.status = 302, !.type = "redirect", !.location = location]
SendFile(file) ==
  [NoRes EXCEPT !.status = 200, !.type = "file", !.location = file]
\* res.sendFile of a file that is not there: the error reaches express's
\* final handler, which answers with the error's status
SendFileError ==
  [NoRes EXCEPT !.status = 404, !.type = "text", !.error = "ENOENT"]

\* the two dashboard pages a deployment may or may not hold on disk
PublicDashboard == "public/dashboard.html"
AdminDashboard  == "admin/dashboard.html"

VARIABLES
  up,        \* the node process is running
  files,     \* the pages present under public/ and admin/
  boot,      \* position of ensureAdmin: "get", "hash", "insert", "done"
  bootHash,  \* the hash ensureAdmin computed
  admins,    \* rows of table admins
  users,     \* rows of table users
  userSeq,   \* sqlite_sequence of users: the largest id ever given
  reports,   \* rows of table reports
  reportSeq, \* sqlite_sequence of reports
  sessions,  \* the session store, by client cookie
  req        \* the requests in flight, by slot

vars == <<up, files, boot, bootHash, admins, users, userSeq, reports,
          reportSeq, sessions, req>>
db   == <<admins, users, userSeq, reports, reportSeq>>

\* an admin row left by an earlier run of the server
OldAdmin == [id |-> 1, username |-> "admin",
             password |-> bcrypt_hash("admin123", 0)]

Init ==
  /\ up = TRUE
  /\ files \in SUBSET {PublicDashboard, AdminDashboard}
  /\ boot = "get"
  /\ bootHash = NoHash
  /\ admins \in {{}, {OldAdmin}}
  /\ users = {}
  /\ userSeq = 0
  /\ reports = {}
  /\ reportSeq = 0
  /\ sessions = [c \in Clients |-> NoSession]
  /\ req = [r \in Slots |-> Idle]

\* ------------------------------------------------------- request plumbing
\* a request arrives in slot r from client c: the session middleware loads
\* the client's session into req.session (the record keeps the session as
\* loaded; a login writes the new one to the store when its response ends)
Arrive(r, c, route, body) ==
  [Idle EXCEPT !.client = c, !.route = route, !.body = body,
               !.session = sessions[c]]

\* res.json / res.redirect / res.sendFile ends the request: what is left is
\* what the client sent, the session it sent it with, and what it got back
Respond(q, res) ==
  [Idle EXCEPT !.pc = "done", !.client = q.client, !.route = q.route,
               !.body = q.body, !.session = q.session, !.res = res]

\* a request that will never be answered
Hang(q) == [Idle EXCEPT !.pc = "hung", !.client = q.client, !.route = q.route,
                        !.body = q.body, !.session = q.session]

\* a response is on its way to the client only for an instant: the event loop
\* takes its next step after the client has it
Quiet == up /\ \A s \in DOMAIN req : req[s].pc # "done"

At(r, route, pc) == req[r].route = route /\ req[r].pc = pc

\* the client takes the response; the slot is free again
Receive(r) ==
  /\ req[r].pc = "done"
  /\ req' = [req EXCEPT ![r] = Idle]
  /\ UNCHANGED <<up, files, boot, bootHash, db, sessions>>

\* the client gives up on a request that will never be answered
Abandon(r) ==
  /\ req[r].pc = "hung"
  /\ req' = [req EXCEPT ![r] = Idle]
  /\ UNCHANGED <<up, files, boot, bootHash, db, sessions>>

\* an exception thrown inside an async sqlite callback is an unhandled
\* promise rejection: node either only warns (the request is left without a
\* response) or terminates the process, depending on its version and flags
UnhandledRejection(r) ==
  \/ /\ req' = [req EXCEPT ![r] = Hang(req[r])]
     /\ UNCHANGED up
  \/ /\ up' = FALSE
     /\ req' = [s \in Slots |->
                 IF req[s].pc \in {"idle", "done"} THEN req[s]
                 ELSE Hang(req[s])]

\* ------------------------------------------------------------ ensureAdmin
adminUser == "admin"
adminPass == "admin123"

\* the same callback with its test inverted: if (row)
BootGet_Inverted ==
  /\ Quiet /\ boot = "get"
  /\ boot' = IF \E a \in admins : a.username = adminUser
             THEN "hash" ELSE "done"
  /\ UNCHANGED <<up, files, bootHash, db, sessions, req>>

\* db.get('SELECT * FROM admins WHERE username = ?') and its callback
BootGet ==
  /\ Quiet /\ boot = "get"
  /\ boot' = IF \E a \in admins : a.username = adminUser
             THEN "done" ELSE "hash"
  /\ UNCHANGED <<up, files, bootHash, db, sessions, req>>

\* await bcrypt.hash(adminPass, 10)
BootHash ==
  /\ Quiet /\ boot = "hash"
  /\ \E salt \in Salts : bootHash' = bcrypt_hash(adminPass, salt)
  /\ boot' = "insert"
  /\ UNCHANGED <<up, files, db, sessions, req>>

\* db.run('INSERT INTO admins(username, password) VALUES(?, ?)')
BootInsert ==
  /\ Quiet /\ boot = "insert"
  /\ admins' = IF \E a \in admins : a.username = adminUser
               THEN admins
               ELSE admins \cup {[id |-> Cardinality(admins) + 1,
                                  username |-> adminUser,
                                  password |-> bootHash]}
  /\ boot' = "done"
  /\ UNCHANGED <<up, files, bootHash, users, userSeq, reports, reportSeq,
                 sessions, req>>

\* --------------------------------------------------- POST /api/register
DuplicateEmail == "SQLITE_CONSTRAINT: UNIQUE constraint failed: users.email"

InFlight(route) ==
  Cardinality({r \in Slots : req[r].route = route
                             /\ req[r].pc \notin {"idle", "done", "hung"}})

\* the presence check without the password
RegisterMissing_NoPassword(name, email, password) ==
  ~Truthy(name) \/ ~Truthy(email)

\* if (!name || !email || !password)
RegisterMissing(name, email, password) ==
  ~Truthy(name) \/ ~Truthy(email) \/ ~Truthy(password)

DispatchRegister(r, c, name, email, password) ==
  /\ Quiet /\ req[r].pc = "idle"
  /\ userSeq + InFlight("register") < MaxUsers
  /\ LET q == Arrive(r, c, "register",
                     [NoBody EXCEPT !.name = name, !.email = email,
                                    !.password = password])
     IN req' = [req EXCEPT ![r] =
                  IF RegisterMissing(name, email, password)
                  THEN Respond(q, JsonError(400, "Isi semua field"))
                  ELSE [q EXCEPT !.pc = "hash"]]
  /\ UNCHANGED <<up, files, boot, bootHash, db, sessions>>

\* await bcrypt.hash(password, 10), inside try/catch
RegisterHash(r) ==
  /\ Quiet /\ At(r, "register", "hash")
  /\ IF IsString(req[r].body.password)
     THEN \E salt \in Salts :
            req' = [req EXCEPT ![r].pc = "db",
                      ![r].hash = bcrypt_hash(req[r].body.password, salt)]
     ELSE req' = [req EXCEPT ![r] =
                    Respond(req[r], JsonError(500, "Server error"))]
  /\ UNCHANGED <<up, files, boot, bootHash, db, sessions>>

\* the same INSERT on a column declared without UNIQUE
InsertUser_NoUnique(rows, seq, name, email, hash) ==
  [err |-> Undef,
   rows |-> rows \cup {[id |-> seq + 1, name |-> name, email |-> email,
                        password |-> hash]},
   seq |-> seq + 1, lastID |-> seq + 1]

\* INSERT INTO users(name,email,password) under email TEXT UNIQUE
InsertUser(rows, seq, name, email, hash) ==
  IF \E u \in rows : u.email = email
  THEN [err |-> DuplicateEmail, rows |-> rows, seq |-> seq, lastID |-> 0]
  ELSE [err |-> Undef,
        rows |-> rows \cup {[id |-> seq + 1, name |-> name, email |-> email,
                             password |-> hash]},
        seq |-> seq + 1, lastID |-> seq + 1]

RegisterInsert(r) ==
  /\ Quiet /\ At(r, "register", "db")
  /\ LET b == req[r].body
         o == InsertUser(users, userSeq, b.name, b.email, req[r].hash)
     IN /\ users' = o.rows
        /\ userSeq' = o.seq
        /\ req' = [req EXCEPT ![r] =
                     IF o.err # Undef
                     THEN Respond(req[r], JsonError(400, o.err))
                     ELSE Respond(req[r], JsonId(o.lastID))]
  /\ UNCHANGED <<up, files, boot, bootHash, admins, reports, reportSeq,
                 sessions>>

\* ------------------------------------------------------ POST /api/login
DispatchLogin(r, c, email, password) ==
  /\ Quiet /\ req[r].pc = "idle"
  /\ req' = [req EXCEPT ![r] =
       [Arrive(r, c, "login", [NoBody EXCEPT !.email = email,
                                             !.password = password])
          EXCEPT !.pc = "db"]]
  /\ UNCHANGED <<up, files, boot, bootHash, db, sessions>>

\* the same callback destroying the session when no row is found
LoginGet_DestroyOnFail(r) ==
  /\ Quiet /\ At(r, "login", "db")
  /\ LET found == {u \in users : u.email = req[r].body.email}
     IN IF found = {}
        THEN /\ req' = [req EXCEPT ![r] =
                  Respond(req[r], Json("false", "User tidak ditemukan"))]
             /\ sessions' = [sessions EXCEPT ![req[r].client] = NoSession]
        ELSE LET u == CHOOSE u \in found : TRUE
             IN /\ req' = [req EXCEPT ![r] =
                     [req[r] EXCEPT !.pc = "compare",
                        !.row = [NoRow EXCEPT !.id = u.id, !.name = u.name,
                                   !.email = u.email,
                                   !.password = u.password]]]
                /\ UNCHANGED sessions
  /\ UNCHANGED <<up, files, boot, bootHash, db>>

\* db.get('SELECT * FROM users WHERE email = ?') and its callback up to the
\* await
LoginGet(r) ==
  /\ Quiet /\ At(r, "login", "db")
  /\ LET found == {u \in users : u.email = req[r].body.email}
     IN req' = [req EXCEPT ![r] =
          IF found = {}
          THEN Respond(req[r], Json("false", "User tidak ditemukan"))
          ELSE LET u == CHOOSE u \in found : TRUE
               IN [req[r] EXCEPT !.pc = "compare",
                     !.row = [NoRow EXCEPT !.id = u.id, !.name = u.name,
                                !.email = u.email, !.password = u.password]]]
  /\ UNCHANGED <<up, files, boot, bootHash, db, sessions>>

\* the two assignments without the second
BindUser_NoRole(session, row) == [session EXCEPT !.user = UserIdentity(row)]

\* req.session.user = { id, name, email }; req.session.role = 'user'
BindUser(session, row) ==
  [session EXCEPT !.user = UserIdentity(row), !.role = "user"]

\* the comparison without its await: a pending promise is truthy
LoginMatch_NoAwait(password, row) == TRUE

\* const match = await bcrypt.compare(password, row.password)
LoginMatch(password, row) == bcrypt_compare(password, row.password)

\* await bcrypt.compare(password, row.password) and the rest of the callback;
\* the session set on req is saved to the store when the response ends
LoginCompare(r) ==
  /\ Quiet /\ At(r, "login", "compare")
  /\ LET q == req[r]
     IN IF ~IsString(q.body.password)
        THEN UnhandledRejection(r) /\ UNCHANGED sessions
        ELSE IF ~LoginMatch(q.body.password, q.row)
        THEN /\ req' = [req EXCEPT ![r] =
                         Respond(q, Json("false", "Password salah"))]
             /\ UNCHANGED <<up, sessions>>
        ELSE LET s == BindUser(q.session, q.row)
             IN /\ req' = [req EXCEPT ![r] = Respond(q, Json("true", Undef))]
                /\ sessions' = [sessions EXCEPT ![q.client] = s]
                /\ UNCHANGED up
  /\ UNCHANGED <<files, boot, bootHash, db>>

\* ----------------------------------------------------- POST /api/logout
\* the same route also purging the reports of the session's user
Logout_Purge(r, c) ==
  /\ Quiet /\ req[r].pc = "idle"
  /\ sessions' = [sessions EXCEPT ![c] = NoSession]
  /\ reports' = {p \in reports : p.user_id # sessions[c].user.id}
  /\ req' = [req EXCEPT ![r] =
       Respond(Arrive(r, c, "logout", NoBody), Json("true", Undef))]
  /\ UNCHANGED <<up, files, boot, bootHash, admins, users, userSeq,
                 reportSeq>>

\* the same route behind requireUser
Logout_Gated(r, c) ==
  /\ Quiet /\ req[r].pc = "idle"
  /\ LET q == Arrive(r, c, "logout", NoBody)
     IN IF ~requireUser(q.session)
        THEN /\ req' = [req EXCEPT ![r] = Respond(q, Redirect("/login.html"))]
             /\ UNCHANGED sessions
        ELSE /\ sessions' = [sessions EXCEPT ![c] = NoSession]
             /\ req' = [req EXCEPT ![r] = Respond(q, Json("true", Undef))]
  /\ UNCHANGED <<up, files, boot, bootHash, db>>

\* req.session.destroy(() => res.json({ success: true })): no gate
Logout(r, c) ==
  /\ Quiet /\ req[r].pc = "idle"
  /\ sessions' = [sessions EXCEPT ![c] = NoSession]
  /\ req' = [req EXCEPT ![r] =
       Respond(Arrive(r, c, "logout", NoBody), Json("true", Undef))]
  /\ UNCHANGED <<up, files, boot, bootHash, db>>

\* ------------------------------------------------ POST /api/admin/login
DispatchAdminLogin(r, c, username, password) ==
  /\ Quiet /\ req[r].pc = "idle"
  /\ req' = [req EXCEPT ![r] =
       [Arrive(r, c, "adminLogin", [NoBody EXCEPT !.username = username,
                                                  !.password = password])
          EXCEPT !.pc = "db"]]
  /\ UNCHANGED <<up, files, boot, bootHash, db, sessions>>

AdminLoginGet(r) ==
  /\ Quiet /\ At(r, "adminLogin", "db")
  /\ LET found == {a \in admins : a.username = req[r].body.username}
     IN req' = [req EXCEPT ![r] =
          IF found = {}
          THEN Respond(req[r], Json("false", "Admin tidak ditemukan"))
          ELSE LET a == CHOOSE a \in found : TRUE
               IN [req[r] EXCEPT !.pc = "compare",
                     !.row = [NoRow EXCEPT !.id = a.id,
                                !.username = a.username,
                                !.password = a.password]]]
  /\ UNCHANGED <<up, files, boot, bootHash, db, sessions>>

\* req.session.user = { id, username }; req.session.role = 'admin'
BindAdmin(session, row) ==
  [session EXCEPT !.user = AdminIdentity(row), !.role = "admin"]

AdminLoginMatch(password, row) == bcrypt_compare(password, row.password)

AdminLoginCompare(r) ==
  /\ Quiet /\ At(r, "adminLogin", "compare")
  /\ LET q == req[r]
     IN IF ~IsString(q.body.password)
        THEN UnhandledRejection(r) /\ UNCHANGED sessions
        ELSE IF ~AdminLoginMatch(q.body.password, q.row)
        THEN /\ req' = [req EXCEPT ![r] =
                         Respond(q, Json("false", "Password salah"))]
             /\ UNCHANGED <<up, sessions>>
        ELSE LET s == BindAdmin(q.session, q.row)
             IN /\ req' = [req EXCEPT ![r] = Respond(q, Json("true", Undef))]
                /\ sessions' = [sessions EXCEPT ![q.client] = s]
                /\ UNCHANGED up
  /\ UNCHANGED <<files, boot, bootHash, db>>

\* ----------------------------------------------- POST /api/admin/logout
\* the same route behind requireAdmin
AdminLogout_Gated(r, c) ==
  /\ Quiet /\ req[r].pc = "idle"
  /\ LET q == Arrive(r, c, "adminLogout", NoBody)
     IN IF ~requireAdmin(q.session)
        THEN /\ req' = [req EXCEPT ![r] =
                         Respond(q, Redirect("/admin/login.html"))]
             /\ UNCHANGED sessions
        ELSE /\ sessions' = [sessions EXCEPT ![c] = NoSession]
             /\ req' = [req EXCEPT ![r] = Respond(q, Json("true", Undef))]
  /\ UNCHANGED <<up, files, boot, bootHash, db>>

AdminLogout(r, c) ==
  /\ Quiet /\ req[r].pc = "idle"
  /\ sessions' = [sessions EXCEPT ![c] = NoSession]
  /\ req' = [req EXCEPT ![r] =
       Respond(Arrive(r, c, "adminLogout", NoBody), Json("true", Undef))]
  /\ UNCHANGED <<up, files, boot, bootHash, db>>

\* ----------------------------------------------------- POST /api/report
DispatchReport(r, c, site, note) ==
  /\ Quiet /\ req[r].pc = "idle"
  /\ reportSeq + InFlight("report") < MaxReports
  /\ LET q == Arrive(r, c, "report",
                     [NoBody EXCEPT !.site = site, !.note = note])
     IN req' = [req EXCEPT ![r] =
          IF ~requireUser(q.session)
          THEN Respond(q, Redirect("/login.html"))
          ELSE IF ~Truthy(site)
          THEN Respond(q, JsonError(400, "site required"))
          ELSE [q EXCEPT !.pc = "db"]]
  /\ UNCHANGED <<up, files, boot, bootHash, db, sessions>>

\* INSERT INTO reports(user_id,site,note): id is AUTOINCREMENT, status takes
\* its DEFAULT 'Pending'
\* the same INSERT on a status column declared without its DEFAULT
InsertReport_NoDefault(rows, seq, user_id, site, note) ==
  [rows |-> rows \cup {[id |-> seq + 1, user_id |-> user_id, site |-> site,
                        note |-> note, status |-> "NULL"]},
   seq |-> seq + 1, lastID |-> seq + 1]

InsertReport(rows, seq, user_id, site, note) ==
  [rows |-> rows \cup {[id |-> seq + 1, user_id |-> user_id, site |-> site,
                        note |-> note, status |-> Pending]},
   seq |-> seq + 1, lastID |-> seq + 1]

\* the same callback looking at the stored session again before it inserts
ReportInsert_Recheck(r) ==
  /\ Quiet /\ At(r, "report", "db")
  /\ IF ~requireUser(sessions[req[r].client])
     THEN /\ req' = [req EXCEPT ![r] =
                      Respond(req[r], Redirect("/login.html"))]
          /\ UNCHANGED <<reports, reportSeq>>
     ELSE LET o == InsertReport(reports, reportSeq, req[r].session.user.id,
                                req[r].body.site, req[r].body.note)
          IN /\ reports' = o.rows
             /\ reportSeq' = o.seq
             /\ req' = [req EXCEPT ![r] = Respond(req[r], JsonId(o.lastID))]
  /\ UNCHANGED <<up, files, boot, bootHash, admins, users, userSeq, sessions>>

ReportInsert(r) ==
  /\ Quiet /\ At(r, "report", "db")
  /\ LET o == InsertReport(reports, reportSeq, req[r].session.user.id,
                           req[r].body.site, req[r].body.note)
     IN /\ reports' = o.rows
        /\ reportSeq' = o.seq
        /\ req' = [req EXCEPT ![r] = Respond(req[r], JsonId(o.lastID))]
  /\ UNCHANGED <<up, files, boot, bootHash, admins, users, userSeq, sessions>>

\* -------------------------------------------------- GET /api/my-reports
DispatchMyReports(r, c) ==
  /\ Quiet /\ req[r].pc = "idle"
  /\ LET q == Arrive(r, c, "myReports", NoBody)
     IN req' = [req EXCEPT ![r] =
          IF ~requireUser(q.session)
          THEN Respond(q, Redirect("/login.html"))
          ELSE [q EXCEPT !.pc = "db"]]
  /\ UNCHANGED <<up, files, boot, bootHash, db, sessions>>

\* SELECT * FROM reports WHERE user_id = ? (the rows, whatever their order)
\* the same SELECT without its WHERE clause
SelectByUser_NoWhere(rows, user_id) == rows

SelectByUser(rows, user_id) == {p \in rows : p.user_id = user_id}

MyReportsAll(r) ==
  /\ Quiet /\ At(r, "myReports", "db")
  /\ req' = [req EXCEPT ![r] = Respond(req[r],
       JsonRows(SelectByUser(reports, req[r].session.user.id)))]
  /\ UNCHANGED <<up, files, boot, bootHash, db, sessions>>

\* ----------------------------------------------- GET /api/admin/reports
DispatchAdminReports(r, c) ==
  /\ Quiet /\ req[r].pc = "idle"
  /\ LET q == Arrive(r, c, "adminReports", NoBody)
     IN req' = [req EXCEPT ![r] =
          IF ~requireAdmin(q.session)
          THEN Respond(q, Redirect("/admin/login.html"))
          ELSE [q EXCEPT !.pc = "db"]]
  /\ UNCHANGED <<up, files, boot, bootHash, db, sessions>>

\* SELECT reports.*, users.name as reporter FROM reports
\* LEFT JOIN users ON reports.user_id = users.id (the rows, whatever their
\* order)
SelectAll(rows, urows) ==
  {[id |-> p.id, user_id |-> p.user_id, site |-> p.site, note |-> p.note,
    status |-> p.status,
    reporter |-> IF \E u \in urows : u.id = p.user_id
                 THEN (CHOOSE u \in urows : u.id = p.user_id).name
                 ELSE "NULL"] : p \in rows}

AdminReportsAll(r) ==
  /\ Quiet /\ At(r, "adminReports", "db")
  /\ req' = [req EXCEPT ![r] = Respond(req[r],
                                       JsonRows(SelectAll(reports, users)))]
  /\ UNCHANGED <<up, files, boot, bootHash, db, sessions>>

\* ------------------------------------ POST /api/admin/reports/:id/status
DispatchSetStatus(r, c, id, status) ==
  /\ Quiet /\ req[r].pc = "idle"
  /\ LET q == Arrive(r, c, "setStatus",
                     [NoBody EXCEPT !.id = id, !.status = status])
     IN req' = [req EXCEPT ![r] =
          IF ~requireAdmin(q.session)
          THEN Respond(q, Redirect("/admin/login.html"))
          ELSE [q EXCEPT !.pc = "db"]]
  /\ UNCHANGED <<up, files, boot, bootHash, db, sessions>>

\* const status = req.body.status || 'Pending'
StatusOrDefault(status) == IF Truthy(status) THEN status ELSE Pending

\* the same UPDATE also setting the owner column
UpdateStatus_Reassign(rows, id, status) ==
  {IF p.id = id THEN [p EXCEPT !.status = status, !.user_id = 0] ELSE p :
     p \in rows}

\* the same UPDATE without its WHERE clause
UpdateStatus_NoWhere(rows, id, status) ==
  {[p EXCEPT !.status = status] : p \in rows}

\* UPDATE reports SET status = ? WHERE id = ?
UpdateStatus(rows, id, status) ==
  {IF p.id = id THEN [p EXCEPT !.status = status] ELSE p : p \in rows}

SetStatusRun(r) ==
  /\ Quiet /\ At(r, "setStatus", "db")
  /\ reports' = UpdateStatus(reports, req[r].body.id,
                             StatusOrDefault(req[r].body.status))
  /\ req' = [req EXCEPT ![r] = Respond(req[r], Json("true", Undef))]
  /\ UNCHANGED <<up, files, boot, bootHash, admins, users, userSeq,
                 reportSeq, sessions>>

\* ------------------------------------------ DELETE /api/admin/reports/:id
DispatchDelete(r, c, id) ==
  /\ Quiet /\ req[r].pc = "idle"
  /\ LET q == Arrive(r, c, "deleteReport", [NoBody EXCEPT !.id = id])
     IN req' = [req EXCEPT ![r] =
          IF ~requireAdmin(q.session)
          THEN Respond(q, Redirect("/admin/login.html"))
          ELSE [q EXCEPT !.pc = "db"]]
  /\ UNCHANGED <<up, files, boot, bootHash, db, sessions>>

\* the same DELETE without its WHERE clause
DeleteReport_NoWhere(rows, id) == {}

\* DELETE FROM reports WHERE id = ?
DeleteReport(rows, id) == {p \in rows : p.id # id}

DeleteRun(r) ==
  /\ Quiet /\ At(r, "deleteReport", "db")
  /\ reports' = DeleteReport(reports, req[r].body.id)
  /\ req' = [req EXCEPT ![r] = Respond(req[r], Json("true", Undef))]
  /\ UNCHANGED <<up, files, boot, bootHash, admins, users, userSeq,
                 reportSeq, sessions>>

\* ------------------------------------------------- the dashboard pages
\* app.use(express.static('public')) runs before every route: a GET whose
\* path names a file under public/ is answered there
StaticPublic(path) == path = "/dashboard.html" /\ PublicDashboard \in files
\* app.use('/admin', express.static('admin'))
StaticAdmin(path) == path = "/admin/dashboard.html" /\ AdminDashboard \in files

\* GET /dashboard.html
GetDashboard(r, c) ==
  /\ Quiet /\ req[r].pc = "idle"
  /\ LET q == Arrive(r, c, "dashboard", NoBody)
     IN req' = [req EXCEPT ![r] =
          IF StaticPublic("/dashboard.html")
          THEN Respond(q, SendFile(PublicDashboard))
          ELSE IF ~requireUser(q.session)
          THEN Respond(q, Redirect("/login.html"))
          ELSE Respond(q, SendFileError)]
  /\ UNCHANGED <<up, files, boot, bootHash, db, sessions>>

\* GET /admin/dashboard.html
GetAdminDashboard(r, c) ==
  /\ Quiet /\ req[r].pc = "idle"
  /\ LET q == Arrive(r, c, "adminDashboard", NoBody)
     IN req' = [req EXCEPT ![r] =
          IF StaticAdmin("/admin/dashboard.html")
          THEN Respond(q, SendFile(AdminDashboard))
          ELSE IF ~requireAdmin(q.session)
          THEN Respond(q, Redirect("/admin/login.html"))
          ELSE Respond(q, SendFileError)]
  /\ UNCHANGED <<up, files, boot, bootHash, db, sessions>>

\* --------------------------------------------------------- specification
\* one step of ensureAdmin
Boot == BootGet \/ BootHash \/ BootInsert

\* the client's side of a request in a slot of R
ClientStep(R) ==
  \/ \E r \in R : Receive(r)
  \/ \E r \in R : Abandon(r)

\* one step of a registration, login or logout in a slot of R, from a client
\* of C, with an email of E
AuthStep(R, C, E) ==
  \/ \E r \in R, c \in C, name \in Names, email \in E,
        password \in RegPasswords :
          DispatchRegister(r, c, name, email, password)
  \/ \E r \in R : RegisterHash(r)
  \/ \E r \in R : RegisterInsert(r)
  \/ \E r \in R, c \in C, email \in E,
        password \in Passwords : DispatchLogin(r, c, email, password)
  \/ \E r \in R : LoginGet(r)
  \/ \E r \in R : LoginCompare(r)
  \/ \E r \in R, c \in C : Logout(r, c)
  \/ \E r \in R, c \in C, username \in Usernames,
        password \in AdminPasswords :
          DispatchAdminLogin(r, c, username, password)
  \/ \E r \in R : AdminLoginGet(r)
  \/ \E r \in R : AdminLoginCompare(r)
  \/ \E r \in R, c \in C : AdminLogout(r, c)

\* one step of a request on reports
ReportStep(R, C) ==
  \/ \E r \in R, c \in C, site \in Sites, note \in Notes :
          DispatchReport(r, c, site, note)
  \/ \E r \in R : ReportInsert(r)
  \/ \E r \in R, c \in C : DispatchMyReports(r, c)
  \/ \E r \in R : MyReportsAll(r)
  \/ \E r \in R, c \in C : DispatchAdminReports(r, c)
  \/ \E r \in R : AdminReportsAll(r)
  \/ \E r \in R, c \in C, id \in ReportIds, status \in Statuses :
          DispatchSetStatus(r, c, id, status)
  \/ \E r \in R : SetStatusRun(r)
  \/ \E r \in R, c \in C, id \in ReportIds : DispatchDelete(r, c, id)
  \/ \E r \in R : DeleteRun(r)

\* a GET of one of the dashboard pages
PageStep(R, C) ==
  \/ \E r \in R, c \in C : GetDashboard(r, c)
  \/ \E r \in R, c \in C : GetAdminDashboard(r, c)

\* the server after ensureAdmin has run on a fresh database
InitServing ==
  /\ up = TRUE
  /\ files = {PublicDashboard, AdminDashboard}
  /\ boot = "done"
  /\ \E salt \in Salts :
       /\ bootHash = bcrypt_hash(adminPass, salt)
       /\ admins = {[id |-> 1, username |-> adminUser, password |-> bootHash]}
  /\ users = {}
  /\ userSeq = 0
  /\ reports = {}
  /\ reportSeq = 0
  /\ sessions = [c \in Clients |-> NoSession]
  /\ req = [r \in Slots |-> Idle]

\* Spec: the API served to two browsers, one request at a time
Next == ClientStep({1}) \/ AuthStep({1}, Clients, Emails)
          \/ ReportStep({1}, Clients)
Spec == InitServing /\ [][Next]_vars

\* SpecConc: two requests of one browser in flight at the same time
NextConc == ClientStep(Slots) \/ AuthStep(Slots, {1}, {"a@x"})
              \/ ReportStep(Slots, {1})
SpecConc == InitServing /\ [][NextConc]_vars

\* SpecStart: the server from its start, ensureAdmin racing with the first
\* requests, on any deployment of the pages
NextStart == Boot \/ ClientStep({1}) \/ AuthStep({1}, {1}, {"a@x"})
               \/ PageStep({1}, {1})
SpecStart == Init /\ [][NextStart]_vars

\* ================================================================ claims
AdminRoutes == {"adminReports", "setStatus", "deleteReport"}
UserRoutes  == {"report", "myReports"}
Answered(r) == req[r].pc = "done"
\* slot r takes the last step of its request and answers it
Answers(r, route) ==
  /\ req[r].route = route /\ req[r].pc \in {"db", "compare"}
  /\ req'[r].pc = "done"
IsUserSession(session) ==
  /\ session.role = "user"
  /\ \E u \in users : session.user = UserIdentity(u)
IsAdminSession(session) ==
  /\ session.role = "admin"
  /\ \E a \in admins : session.user = AdminIdentity(a)

\* C1: a handler behind requireAdmin runs only for a request whose session
\* has role 'admin', a handler behind requireUser only for one whose session
\* has role 'user'; a request of an anonymous session or of a session of the
\* other role is answered with the redirect to the login page and no rows.
C1_RoleGate ==
  \A r \in Slots :
    LET q == req[r] IN
    /\ (q.route \in AdminRoutes /\ q.pc = "db") => IsAdminSession(q.session)
    /\ (q.route \in UserRoutes /\ q.pc = "db") => IsUserSession(q.session)
    /\ (q.route \in AdminRoutes /\ q.pc = "done" /\ q.session.role # "admin")
         => q.res = Redirect("/admin/login.html") /\ q.res.rows = {}
    /\ (q.route \in UserRoutes /\ q.pc = "done" /\ q.session.role # "user")
         => q.res = Redirect("/login.html") /\ q.res.rows = {}

\* a user session asked for the list of all reports and was redirected
C1_Witness ==
  \E r \in Slots :
    /\ Answered(r) /\ req[r].route = "adminReports"
    /\ IsUserSession(req[r].session) /\ reports # {}
    /\ req[r].res.type = "redirect"

\* C2: every step that changes the status of an existing report or removes a
\* report row is the store operation of a status or delete request whose
\* session is an authenticated admin session.
C2_OnlyAdminMutates ==
  [][ ~(reports \subseteq reports') =>
        \E r \in Slots :
          /\ Answers(r, "setStatus") \/ Answers(r, "deleteReport")
          /\ IsAdminSession(req[r].session) ]_vars

\* an admin's request has removed a report another one has been changed
C2_Witness ==
  \E r \in Slots :
    /\ Answered(r) /\ req[r].route = "deleteReport"
    /\ IsAdminSession(req[r].session)
    /\ Cardinality(reports) < reportSeq
    /\ \E p \in reports : p.status = Resolved

\* C3: a GET of /dashboard.html from a session that is not a user session,
\* and a GET of /admin/dashboard.html from one that is not an admin session,
\* is answered with the redirect to the login page, never with the page.
C3_DashboardGated ==
  \A r \in Slots :
    LET q == req[r] IN
    /\ (Answered(r) /\ q.route = "dashboard" /\ ~requireUser(q.session))
         => q.res = Redirect("/login.html")
    /\ (Answered(r) /\ q.route = "adminDashboard" /\ ~requireAdmin(q.session))
         => q.res = Redirect("/admin/login.html")

\* C4: no two user rows share an email, and a registration that reaches its
\* INSERT succeeds with the id of the one row it adds when no row has its
\* email, and fails with the 400 duplicate error, adding nothing, when one
\* has: of two overlapping registrations of an email exactly one succeeds.
UniqueEmails == \A u, v \in users : u.email = v.email => u = v
C4_RegisterOnce ==
  [][ /\ UniqueEmails'
      /\ \A r \in Slots : Answers(r, "register") =>
           IF \E u \in users : u.email = req[r].body.email
           THEN /\ req'[r].res = JsonError(400, DuplicateEmail)
                /\ users' = users
           ELSE /\ req'[r].res.status = 200 /\ req'[r].res.success = "true"
                /\ \E u \in users' :
                     /\ u \notin users /\ users' = users \cup {u}
                     /\ u.email = req[r].body.email
                     /\ u.id = req'[r].res.id ]_vars

\* of two registrations of one email that both hashed before either
\* inserted, one has succeeded and the other is about to insert
C4_Witness ==
  \E r, s \in Slots :
    /\ r # s
    /\ Answered(r) /\ req[r].route = "register"
    /\ req[r].res.success = "true"
    /\ At(s, "register", "db") /\ req[s].body.email = req[r].body.email

\* C5: a login that supplies a password is answered {success:true}, with the
\* user's identity and role 'user' bound to the client's session, exactly
\* when a user row has the email and was registered with that password;
\* otherwise it is answered {success:false} and the session store is as it
\* was.
RegisteredWith(u, email, password) ==
  u.email = email /\ u.password.digest[2] = password
C5_LoginIff ==
  [][ \A r \in Slots : Answers(r, "login") =>
        LET b == req[r].body
            c == req[r].client
        IN IF \E u \in users : RegisteredWith(u, b.email, b.password)
           THEN /\ req'[r].res = Json("true", Undef)
                /\ \E u \in users :
                     /\ RegisteredWith(u, b.email, b.password)
                     /\ sessions'[c] = [user |-> UserIdentity(u),
                                        role |-> "user"]
           ELSE /\ req'[r].res.success = "false"
                /\ req'[r].res.status = 200
                /\ sessions' = sessions ]_vars

\* a login with the registered password has been answered {success:true}
C5_Witness ==
  \E r \in Slots :
    /\ Answered(r) /\ req[r].route = "login"
    /\ req[r].res.success = "true"
    /\ IsUserSession(sessions[req[r].client])
    /\ \E u \in users :
         RegisteredWith(u, req[r].body.email, req[r].body.password)

\* C6: a logout on either endpoint, from any session, is answered
\* {success:true} and leaves the client's session anonymous; a logout of an
\* anonymous session leaves the session store as it was.
C6_LogoutIdempotent ==
  [][ \A r \in Slots :
        (req[r].pc = "idle" /\ req'[r].route \in {"logout", "adminLogout"}) =>
          LET c == req'[r].client IN
          /\ req'[r].pc = "done"
          /\ req'[r].res = Json("true", Undef)
          /\ sessions'[c] = NoSession
          /\ sessions[c] = NoSession => sessions' = sessions ]_vars

\* an anonymous session (after a logout, or never logged in) has logged out
C6_Witness ==
  \E r \in Slots :
    /\ Answered(r) /\ req[r].route = "logout"
    /\ req[r].session = NoSession /\ users # {}
    /\ req[r].res.success = "true"
    /\ sessions[req[r].client] = NoSession

\* C7 as claimed: a logout from a session that is not of the endpoint's role
\* is rejected by the gate and does not end the session.
C7_LogoutGated ==
  \A r \in Slots :
    LET q == req[r] IN
    /\ (Answered(r) /\ q.route = "logout" /\ ~requireUser(q.session))
         => q.res.type = "redirect" /\ sessions[q.client] = q.session
    /\ (Answered(r) /\ q.route = "adminLogout" /\ ~requireAdmin(q.session))
         => q.res.type = "redirect" /\ sessions[q.client] = q.session

\* C7 as amended: neither logout endpoint has a role gate; a logout on either
\* endpoint from a session of either role or from an anonymous caller is
\* never redirected, is answered {success:true}, and ends that session.
C7_LogoutUngated ==
  \A r \in Slots :
    (Answered(r) /\ req[r].route \in {"logout", "adminLogout"}) =>
      /\ req[r].res.type = "json" /\ req[r].res.success = "true"
      /\ sessions[req[r].client] = NoSession

\* a user session has been ended through the admin logout endpoint
C7_Witness ==
  \E r \in Slots :
    /\ Answered(r) /\ req[r].route = "adminLogout"
    /\ IsUserSession(req[r].session)
    /\ req[r].res.success = "true"
    /\ sessions[req[r].client] = NoSession

\* C8: a status update of a report id that names no row fails (NotFound)
\* instead of reporting success.
C8_UpdateNotFound ==
  \A r \in Slots :
    (/\ Answered(r) /\ req[r].route = "setStatus"
     /\ requireAdmin(req[r].session)
     /\ ~\E p \in reports : p.id = req[r].body.id)
      => req[r].res.success # "true"

\* C9: the INSERT of a report request adds exactly one row: its id is the one
\* answered and no other row's, its owner the session's user, its status
\* 'Pending'; and a my-reports answer holds every row of the session's user
\* with the status it has.
C9_CreateReport ==
  [][ \A r \in Slots :
        /\ Answers(r, "report") =>
             /\ req'[r].res.status = 200 /\ req'[r].res.success = "true"
             /\ \E p \in reports' :
                  /\ p \notin reports /\ reports' = reports \cup {p}
                  /\ p.id = req'[r].res.id
                  /\ \A o \in reports : o.id # p.id
                  /\ p.user_id = req[r].session.user.id
                  /\ \E u \in users : u.id = p.user_id
                  /\ p.site = req[r].body.site /\ p.note = req[r].body.note
                  /\ p.status = "Pending"
        /\ Answers(r, "myReports") =>
             \A p \in reports :
               p.user_id = req[r].session.user.id =>
                 \E row \in req'[r].res.rows :
                   row.id = p.id /\ row.status = p.status ]_vars

\* a user's second report has been created next to an existing one
C9_Witness ==
  \E r \in Slots :
    /\ Answered(r) /\ req[r].route = "report"
    /\ req[r].res.success = "true"
    /\ Cardinality(reports) = 2
    /\ \E p \in reports : p.id = req[r].res.id /\ p.status = "Pending"

\* C10: the UPDATE of a status request on an existing report leaves that
\* report, as listAll shows it, with the status sent ('Pending' when none
\* was sent) and every other report as it was; a listAll answer shows every
\* report with the status it has.
C10_UpdateStatus ==
  [][ \A r \in Slots :
        /\ (Answers(r, "setStatus")
              /\ \E p \in reports : p.id = req[r].body.id) =>
             LET id == req[r].body.id
                 s  == IF req[r].body.status = Undef THEN "Pending"
                       ELSE req[r].body.status
                 shown == SelectAll(reports', users')
             IN /\ req'[r].res = Json("true", Undef)
                /\ \E row \in shown : row.id = id
                /\ \A row \in shown : row.id = id => row.status = s
                /\ \A o \in reports : o.id # id => o \in reports'
                /\ Cardinality(reports') = Cardinality(reports)
        /\ Answers(r, "adminReports") =>
             /\ \A p \in reports : \E row \in req'[r].res.rows :
                  row.id = p.id /\ row.status = p.status
             /\ Cardinality(req'[r].res.rows) = Cardinality(reports) ]_vars

\* listAll has shown a report as 'Resolved' next to one still 'Pending'
C10_Witness ==
  \E r \in Slots :
    /\ Answered(r) /\ req[r].route = "adminReports"
    /\ \E row \in req[r].res.rows : row.status = Resolved
    /\ \E row \in req[r].res.rows : row.status = "Pending"

\* C11: the DELETE of a delete request is answered {success:true} whether or
\* not a row has the id; afterwards no row has the id, in listAll and in
\* my-reports alike, every other row is as it was, and a delete of an id that
\* names no row leaves the reports as they were.
C11_DeleteIdempotent ==
  [][ \A r \in Slots : Answers(r, "deleteReport") =>
        LET id == req[r].body.id IN
        /\ req'[r].res = Json("true", Undef)
        /\ \A row \in SelectAll(reports', users') : row.id # id
        /\ \A u \in users : \A row \in SelectByUser(reports', u.id) :
             row.id # id
        /\ \A o \in reports : o.id # id => o \in reports'
        /\ reports' \subseteq reports
        /\ (\A o \in reports : o.id # id) => reports' = reports ]_vars

\* a delete of an id that was created and is gone has been answered with
\* success, next to a report that is still there
C11_Witness ==
  \E r \in Slots :
    /\ Answered(r) /\ req[r].route = "deleteReport"
    /\ req[r].res.success = "true"
    /\ req[r].body.id <= reportSeq
    /\ \A p \in reports : p.id # req[r].body.id
    /\ reports # {}

\* C12: no step of a login or a logout, of a user or an admin, successful or
\* failed, changes a user row or a report row; and a my-reports answer holds
\* every report owned by the user row whose email the session carries,
\* whichever session created it.
AuthRoutes == {"login", "logout", "adminLogin", "adminLogout"}
C12_SessionChurn ==
  [][ \A r \in Slots :
        /\ (req'[r] # req[r] /\ req'[r].route \in AuthRoutes) =>
             /\ users' = users /\ userSeq' = userSeq
             /\ reports' = reports /\ reportSeq' = reportSeq
        /\ Answers(r, "myReports") =>
             \A p \in reports : \A u \in users :
               (u.id = p.user_id /\ u.email = req[r].session.user.email)
                 => p \in req'[r].res.rows ]_vars

\* the owner of a report has logged out and the report is still there
C12_Witness ==
  \E r \in Slots :
    /\ Answered(r) /\ req[r].route = "logout"
    /\ IsUserSession(req[r].session)
    /\ sessions[req[r].client] = NoSession
    /\ \E p \in reports : p.user_id = req[r].session.user.id

\* C13: a my-reports answer holds exactly the report rows whose owner is the
\* session's user: all of them, and no row of another user.
C13_OwnReportsOnly ==
  [][ \A r \in Slots : Answers(r, "myReports") =>
        /\ IsUserSession(req[r].session)
        /\ req'[r].res.status = 200
        /\ \A p \in reports :
             (p \in req'[r].res.rows) <=> (p.user_id = req[r].session.user.id)
        /\ req'[r].res.rows \subseteq reports ]_vars

\* a user has been shown its own report and not the one of another user
C13_Witness ==
  \E r \in Slots :
    /\ Answered(r) /\ req[r].route = "myReports"
    /\ req[r].res.rows # {}
    /\ \E p \in reports : p.user_id # req[r].session.user.id

\* C14: every request is answered: no request is left without a response
\* because its handler's asynchronous callback failed, and in particular no
\* login that names an existing account and omits the password.
C14_EveryRequestAnswered ==
  \A r \in Slots : req[r].pc # "hung"

\* C15: a registration without name, email or password is answered 400 at
\* once and no user row is added; a report request of a user session without
\* site is answered 400 at once and no report row is added.
C15_RejectedChangesNothing ==
  [][ \A r \in Slots :
        LET b == req'[r].body IN
        /\ (/\ req[r].pc = "idle" /\ req'[r].route = "register"
            /\ Undef \in {b.name, b.email, b.password}) =>
             /\ req'[r].pc = "done" /\ req'[r].res.status = 400
             /\ req'[r].res.success # "true"
             /\ users' = users /\ userSeq' = userSeq
        /\ (/\ req[r].pc = "idle" /\ req'[r].route = "report"
            /\ req'[r].session.role = "user" /\ b.site = Undef) =>
             /\ req'[r].pc = "done" /\ req'[r].res.status = 400
             /\ req'[r].res.success # "true"
             /\ reports' = reports /\ reportSeq' = reportSeq ]_vars

\* a user session's report request without site has been answered 400
C15_Witness ==
  \E r \in Slots :
    /\ Answered(r) /\ req[r].route = "report"
    /\ IsUserSession(req[r].session) /\ req[r].body.site = Undef
    /\ req[r].res.status = 400 /\ reports = {}

\* C16: once ensureAdmin has completed there is exactly one admin row with
\* username 'admin'; the only step that changes the admin rows is
\* ensureAdmin's INSERT, taken when no such row exists, so a row that was
\* there before keeps its password hash and no request changes or removes
\* an admin row.
C16_BootstrapOnce ==
  [][ /\ boot' = "done" =>
           Cardinality({a \in admins' : a.username = "admin"}) = 1
      /\ admins' # admins =>
           /\ boot = "insert" /\ boot' = "done"
           /\ req' = req
           /\ ~\E a \in admins : a.username = "admin"
           /\ admins \subseteq admins' ]_vars

\* ensureAdmin has completed on a database that held the admin row, the row
\* is the one that was there, and an admin has logged in with it
C16_Witness ==
  /\ boot = "done" /\ admins = {OldAdmin}
  /\ \E c \in Clients : IsAdminSession(sessions[c])

\* C17: a login answered {success:false}, on either login endpoint, leaves
\* the session store as it was: an anonymous session stays anonymous and an
\* authenticated one keeps its identity and role.
C17_FailedLoginKeepsSession ==
  [][ \A r \in Slots :
        ((Answers(r, "login") \/ Answers(r, "adminLogin"))
          /\ req'[r].res.success # "true") =>
            /\ req'[r].res.success = "false"
            /\ sessions' = sessions
            /\ sessions'[req[r].client] = req[r].session ]_vars

\* a user login has failed in an admin session, which is still there
C17_Witness ==
  \E r \in Slots :
    /\ Answered(r) /\ req[r].route = "login"
    /\ req[r].res.success = "false"
    /\ IsAdminSession(req[r].session)
    /\ sessions[req[r].client] = req[r].session

\* C18: every stored session has an identity and a role or neither; with
\* role 'user' the identity is the id, name and email of a user row, with
\* role 'admin' the id and username of an admin row.
C18_SessionConsistent ==
  \A c \in Clients :
    LET s == sessions[c] IN
    /\ (s.user = NoUser) <=> (s.role = Undef)
    /\ s.role \in {Undef, "user", "admin"}
    /\ s.role = "user" => \E u \in users : s.user = UserIdentity(u)
    /\ s.role = "admin" => \E a \in admins : s.user = AdminIdentity(a)

\* a session that was an admin's has logged in as a user
C18_Witness ==
  \E r \in Slots :
    /\ Answered(r) /\ req[r].route = "login"
    /\ req[r].res.success = "true"
    /\ IsAdminSession(req[r].session)
    /\ IsUserSession(sessions[req[r].client])

\* C19: the store operation of a gated request that passed the gate is
\* carried out and answered with success whatever the client's stored
\* session is by then: a logout processed in between cancels nothing, and
\* the request stays waiting for its store operation until that operation
\* answers it, unless the node process itself terminates.
C19_GateOnce ==
  [][ \A r \in Slots :
        /\ (/\ req[r].route \in AdminRoutes \cup UserRoutes
            /\ req[r].pc = "db" /\ req'[r] # req[r]) =>
             \/ req'[r].pc = "done" /\ req'[r].res.type = "json"
                  /\ req'[r].res.status = 200
             \/ up /\ ~up'
        /\ Answers(r, "report") =>
             /\ req'[r].res.success = "true"
             /\ \E p \in reports' :
                  /\ p \notin reports /\ p.id = req'[r].res.id
                  /\ p.user_id = req[r].session.user.id
        /\ Answers(r, "setStatus") =>
             /\ req'[r].res.success = "true"
             /\ \A p \in reports' : p.id = req[r].body.id =>
                  p.status \in {req[r].body.status, "Pending"} \ {Undef}
        /\ Answers(r, "deleteReport") =>
             /\ req'[r].res.success = "true"
             /\ \A p \in reports' : p.id # req[r].body.id ]_vars

\* a report request has inserted its row after its session was logged out
C19_Witness ==
  \E r \in Slots :
    /\ Answered(r) /\ req[r].route = "report"
    /\ req[r].res.success = "true"
    /\ IsUserSession(req[r].session)
    /\ sessions[req[r].client] = NoSession
    /\ \E p \in reports :
         p.id = req[r].res.id /\ p.user_id = req[r].session.user.id

\* C20: a new report row has the id of the creating session's user as its
\* owner, and no step changes the owner of a row that exists.
C20_OwnerFixed ==
  [][ /\ \A p \in reports : \A q \in reports' :
           p.id = q.id => q.user_id = p.user_id
      /\ \A q \in reports' :
           (\A p \in reports : p.id # q.id) =>
             \E r \in Slots :
               /\ Answers(r, "report")
               /\ IsUserSession(req[r].session)
               /\ q.user_id = req[r].session.user.id ]_vars

\* a status update has changed a report, which still has its owner
C20_Witness ==
  \E r \in Slots :
    /\ Answered(r) /\ req[r].route = "setStatus"
    /\ \E p \in reports :
         /\ p.id = req[r].body.id /\ p.status = Resolved
         /\ \E u \in users : u.id = p.user_id

====
